---------------------------- MODULE Spec2Model ----------------------------
(***************************************************************************)
(* Coordination layer of the document scraper:                             *)
(*   - the remote-decision channel (api/websocket_handler.py) and the      *)
(*     Bloomberg workflow's two decision points (scraper/                  *)
(*     bloomberg_scraper.py), checked under Spec;                          *)
(*   - the single-use document capture of the CM/ECF handler (scraper/     *)
(*     cmecf_page_handlers/document_detail_handler.py), checked under      *)
(*     SpecCapture;                                                        *)
(*   - the state machine (scraper/state_machine.py) and the state-change   *)
(*     events it sends, checked under SpecSM;                              *)
(*   - run_scraping_job of both scrapers and CM/ECF's process_case,        *)
(*     checked under SpecRun;                                              *)
(*   - the decision waits under the event loop's fairness, checked under   *)
(*     SpecWait;                                                           *)
(*   - one websocket_endpoint call's message loop, checked under           *)
(*     SpecEndpoint;                                                       *)
(*   - the file names of the downloads (utils/helpers.py), checked under   *)
(*     SpecNames.                                                          *)
(***************************************************************************)
EXTENDS Integers, Sequences, FiniteSets, TLC

VARIABLES
    sockets,            \* websocket_endpoint calls: status, client_id, messages ignored
    active_connections, \* ConnectionManager.active_connections: client_id -> socket
    pending_responses,  \* ConnectionManager.pending_responses: client_id -> future
    fut,                \* the asyncio future of each job's current wait
    pc,                 \* where each job's task is suspended
    job,                \* each job's local data
    prompted,           \* decision prompts that reached an operator
    discarded,          \* a user_response arrived that resolved nothing
    cap,                \* one download_document call of the CM/ECF handler
    sm,                 \* one StateMachine and the transition_to calls on it
    run,                \* one run_scraping_job call and its browser manager
    cse,                \* the process_case call of the running CM/ECF job
    saved               \* the downloads directory of one job: file name -> target

vars == <<sockets, active_connections, pending_responses, fut, pc, job, prompted,
          discarded, cap, sm, run, cse, saved>>

decisionVars == <<sockets, active_connections, pending_responses, fut, pc, job, prompted,
                  discarded>>

-----------------------------------------------------------------------------
(* Bounds of the model *)

\* Docket entries offered at the entry-selection decision: 1..MaxEntries.
MaxEntries == 2

\* transition_to calls made on the state machine.
MaxTransitions == 3

\* Items (cases, documents) of one job.
MaxItems == 2

\* Transcript entries found on a case's results page.
MaxTranscripts == 2

\* Messages of an unrecognized type one websocket_endpoint call receives.
MaxUnknown == 2

\* Characters of the docket or case number a title or a case carries.
MaxChars == 2

\* Downloads one job saves.
MaxSaved == 2

Clients == {"c1", "c2"}
Jobs == {"j1", "j2"}
Sockets == {"s1", "s2"}
None == "none"

\* The downloads directories when a job starts: no file of this job yet, no
\* target downloaded.
NoFiles == [files |-> {}, targets |-> {}]

\* court_options['all_options'] as get_court_options may return it (never empty
\* when the callback runs).
OptionLists == {<<"courtA", "courtB">>}

-----------------------------------------------------------------------------
(* Response payloads.  A Python dict is a record whose missing keys hold      *)
(* "absent"; shape tells where the keys sit:                                  *)
(*   "none"   - no dict at all (the message had no "data" key), or {}         *)
(*   "flat"   - {action, selected_court, selected_indices}                    *)
(*   "nested" - {"data": {action, selected_court, selected_indices}}          *)
(* selected_indices missing and [] are both <<>> (both are falsy).            *)
(* re is the decision request the operator was answering: the wire format has *)
(* no such field, it is carried here to state correlation.                    *)

NoReq == [job |-> None, kind |-> None]

Req(j, k) == [job |-> j, kind |-> k]

Payload(sh, a, c, i) ==
    [shape |-> sh, action |-> a, selected_court |-> c, selected_indices |-> i, re |-> NoReq]

NoneResp == Payload("none", "absent", "absent", <<>>)

\* The operator picks the second court offered.
CourtAnswers ==
    {Payload(sh, "select_court", "courtB", <<>>) : sh \in {"flat", "nested"}}

EntryAnswers ==
    {Payload(sh, a[1], "absent", a[2]) :
        sh \in {"flat", "nested"},
        a \in {<<"download_selected", <<1>>>>, <<"skip", <<>>>>}}

\* What an operator may send as the data of a user_response when answering
\* request r: an answer of the prompt's kind, or nothing.
AnswersTo(r) ==
    {[p EXCEPT !.re = r] :
        p \in {NoneResp} \cup (IF r.kind = "court" THEN CourtAnswers ELSE EntryAnswers)}

MessageTypes == {"user_response", "ping", "unknown"}

\* Python truthiness of the value wait_for_user_response returned.
Truthy(response) == response.shape \notin {"none"}

\* response.get('data', {}).get(key)
InnerGet(response, key) ==
    IF response.shape = "nested" THEN response[key]
    ELSE IF key = "selected_indices" THEN <<>> ELSE "absent"


-----------------------------------------------------------------------------
(* ConnectionManager *)

\* asyncio.Future.set_result as set_user_response calls it: on a future that is
\* already done (resolved or cancelled) it raises InvalidStateError.
FutureSetResult(futs, f, response) ==
    IF futs[f].state = "pending"
    THEN [raised |-> FALSE, fut |-> [futs EXCEPT ![f] = [state |-> "done", result |-> response]]]
    ELSE [raised |-> TRUE, fut |-> futs]

\* set_user_response without its "if not future.done()" test.
SetUserResponseNoDoneCheck(client_id, response) ==
    IF pending_responses[client_id] # None
    THEN FutureSetResult(fut, pending_responses[client_id], response)
    ELSE [raised |-> FALSE, fut |-> fut]

\* set_user_response: resolves the future registered for client_id unless there is
\* none or it is done.  The result says whether the call raised.
SetUserResponse(client_id, response) ==
    IF pending_responses[client_id] # None
    THEN IF fut[pending_responses[client_id]].state = "pending"
         THEN FutureSetResult(fut, pending_responses[client_id], response)
         ELSE [raised |-> FALSE, fut |-> fut]
    ELSE [raised |-> FALSE, fut |-> fut]

\* disconnect: drops the entry of client_id, whichever socket it holds.
DisconnectClient(client_id) ==
    [active_connections EXCEPT ![client_id] = None]

\* send_event reaches an operator only when client_id has a registered connection.
Delivered(client_id) == active_connections[client_id] # None

\* wait_for_user_response up to its await: a new future, stored under client_id.
WaitRegister(j) ==
    /\ fut' = [fut EXCEPT ![j] = [state |-> "pending", result |-> NoneResp]]
    /\ pending_responses' = [pending_responses EXCEPT ![job[j].client] = j]

\* wait_for_user_response without its finally block.
WaitReturnNoCleanup(j) ==
    [response |-> IF fut[j].state = "done" THEN fut[j].result ELSE NoneResp,
     pending  |-> pending_responses]

\* wait_for_user_response from the wake-up of its await to its return: the value
\* returned (None on timeout) and pending_responses after the finally block.
WaitReturn(j) ==
    [response |-> IF fut[j].state = "done" THEN fut[j].result ELSE NoneResp,
     pending  |-> [pending_responses EXCEPT ![job[j].client] = None]]

-----------------------------------------------------------------------------
(* BloombergScraper decision points *)

\* _handle_court_selection taking the last option, not the first, on a timeout.
SelectedCourtLastOnTimeout(response, all_options) ==
    IF ~Truthy(response) THEN all_options[Len(all_options)]
    ELSE IF InnerGet(response, "selected_court") = "absent" THEN all_options[1]
    ELSE InnerGet(response, "selected_court")

\* _handle_court_selection after the wait: the court the workflow goes on with.
SelectedCourt(response, all_options) ==
    IF ~Truthy(response) THEN all_options[1]
    ELSE IF InnerGet(response, "selected_court") = "absent" THEN all_options[1]
    ELSE InnerGet(response, "selected_court")

\* _handle_transcript_download after the wait: the action it settles on.
TranscriptAction(response) ==
    IF ~Truthy(response) THEN "download_all"
    ELSE IF InnerGet(response, "action") = "absent" THEN "download_all"
    ELSE InnerGet(response, "action")

\* transcript_entries as the list of its indices 0..n-1.
AllEntries(n) == [i \in 1..n |-> i - 1]

\* _handle_transcript_download after the wait: the entries handed to
\* download_multiple_transcripts (none when the action is skip).
EntriesToDownload(response, n) ==
    LET action == TranscriptAction(response)
        selected_indices == IF ~Truthy(response) THEN <<>>
                            ELSE InnerGet(response, "selected_indices")
        InRange(i) == i < n
    IN  IF action = "skip" THEN <<>>
        ELSE IF action = "download_all" \/ selected_indices = <<>> THEN AllEntries(n)
        ELSE SelectSeq(selected_indices, InRange)

NoJobData ==
    [client |-> None, all_options |-> <<>>, entries |-> 0, returned_none |-> FALSE,
     selected_court |-> None, to_download |-> <<>>]

Awaiting == {"await_court", "await_entries"}

KindOf(p) == IF p \in {"court_prompted", "await_court"} THEN "court" ELSE "entries"

-----------------------------------------------------------------------------
(* CMECFDocumentDetailHandler: the bytes of a captured document.  Only what the *)
(* code tests is kept: the leading bytes (magic), the length (size), and, to    *)
(* tell one response from another, the strategy that produced them (src).       *)

\* download_pdf_from_url: "if len(content) < 100".
MinPdfSize == 100

\* Requests for the document (show_temp.pl) the browser makes during one capture.
MaxRequests == 2

Magics == {"%PDF", "<", "other"}

Sizes == {MinPdfSize - 1, MinPdfSize}

Bytes(m, n, by) == [magic |-> m, size |-> n, src |-> by]

BytesFrom(by) == {Bytes(m, n, by) : m \in Magics, n \in Sizes}

NoBytes == Bytes("none", 0, "none")

OldFile == Bytes("%PDF", MinPdfSize, "old")

RouteSrc(n) == IF n = 1 THEN "route1" ELSE IF n = 2 THEN "route2"
               ELSE IF n = 3 THEN "route3" ELSE "routeN"

\* The capture strategy bytes came from: the route interception (on the context
\* or on the popup), a viewer download, or the fetch of the derived URL.
Strategy(b) ==
    IF b.src \in {"route1", "route2", "route3", "routeN"} THEN "interception"
    ELSE b.src

\* The validity check of the design: document signature and minimum size.
IsValidPdf(b) == b.magic = "%PDF" /\ b.size >= MinPdfSize

\* intercept_pdf_response: "if body.startswith(b'%PDF')".
InterceptAccepts(body) == body.magic = "%PDF"

\* download_pdf_from_url: content is saved unless it is shorter than 100 bytes, or
\* lacks the signature and starts with "<".
FetchAccepts(content) ==
    /\ ~(content.size < MinPdfSize)
    /\ ~(content.magic # "%PDF" /\ content.magic = "<")

\* _download_from_pdf_viewer: download.save_as(filepath) saves whatever the
\* browser downloaded.
ViewerAccepts(content) == TRUE

CapInit(f) ==
    [pc |-> "idle", status |-> None,
     file |-> f,                 \* content of downloads_dir/<case>_<doc>.pdf
     written |-> <<>>,           \* every write to that file, in order
     captured_pdf_content |-> NoBytes,
     pdf_captured_event |-> FALSE,
     new_page_event |-> FALSE,
     captured_new_page |-> FALSE,
     listener |-> FALSE,         \* on_page registered on the context
     ctx_route |-> FALSE,        \* intercept_pdf_response routed on the context
     popup_route |-> FALSE,      \* intercept_pdf_response routed on the popup
     clicked |-> FALSE,
     popup_open |-> FALSE,
     requests |-> 0,             \* document requests made so far
     inflight |-> 0,             \* intercept handlers between fetch and body
     served |-> 0,               \* intercept handlers that finished
     shown |-> FALSE,            \* a request went by without interception
     first_valid |-> NoBytes,    \* the first valid bytes any strategy produced
     invalid_from |-> {},        \* strategies that produced invalid bytes before
     wait_tasks |-> [new_page |-> "none", pdf |-> "none"],  \* after asyncio.wait
     timed_out |-> FALSE,        \* asyncio.wait ran into its 15 s timeout
     attempted |-> {}]           \* strategies the call has entered (ghost)

\* The strategies of download_document: Method 1's interception and popup
\* capture, its downloads from the PDF viewer, and Method 2's form submission.
Strategies == {"interception", "viewer", "form"}

-----------------------------------------------------------------------------
(* StateMachine (scraper/state_machine.py) and the tasks calling transition_to *)

Callers == {"t1", "t2"}

\* The ScraperState values the model transitions to; the machine starts in IDLE.
SMStates == {"initializing", "searching", "completed"}

\* StateMachine.__init__; the scrapers register _on_state_change right after it.
SMInit(callback) ==
    [current_state |-> "idle", previous_state |-> None, state_history |-> <<>>,
     context |-> {},             \* the keys of the context dict
     on_state_change |-> callback,
     connected |-> FALSE,        \* the job's client_id is in active_connections
     events |-> <<>>,            \* state-change events sent to the session
     ncalls |-> 0,
     calls |-> [t \in Callers |-> [pc |-> "idle", result |-> None]]]

\* transition_to recording previous_state as it was before the call.
TransitionRecordStalePrevious(m, new_state) ==
    [m EXCEPT !.previous_state = m.current_state,
              !.current_state = new_state,
              !.state_history = Append(@, [state |-> new_state,
                                           previous_state |-> m.previous_state])]

\* transition_to up to its callback: previous_state, current_state and the
\* history record, with no await in between.
TransitionRecord(m, new_state) ==
    [m EXCEPT !.previous_state = m.current_state,
              !.current_state = new_state,
              !.state_history = Append(@, [state |-> new_state,
                                           previous_state |-> m.current_state])]

\* The keys update_context is called with.
ContextKeys == {"court", "document"}

\* reset leaving the context as it is.
ResetKeepsContext(m) ==
    [m EXCEPT !.current_state = "idle", !.previous_state = None,
              !.state_history = <<>>]

\* StateMachine.reset: the four assignments; nothing else is touched.
ResetMachine(m) ==
    [m EXCEPT !.current_state = "idle", !.previous_state = None,
              !.state_history = <<>>, !.context = {}]

-----------------------------------------------------------------------------
(* run_scraping_job (cmecf_scraper.py, bloomberg_scraper.py) and              *)
(* BrowserManager (browser_manager.py)                                        *)

Kinds == {"cmecf", "bloomberg"}

\* ScrapingJob.selection_mode (Bloomberg jobs).
Modes == {"manual", "automated"}

\* What a close()/stop() of a browser resource does: it succeeds, or raises
\* because the resource is already closed, or raises for another reason.
CloseOutcomes == {"ok", "closed", "error"}

NoBrowser ==
    [page |-> FALSE, context |-> FALSE, browser |-> FALSE, playwright |-> FALSE,
     is_initialized |-> FALSE]

FullBrowser ==
    [page |-> TRUE, context |-> TRUE, browser |-> TRUE, playwright |-> TRUE,
     is_initialized |-> TRUE]

\* BrowserManager.initialize failing at a stage: what was created before it.
PartialBrowser(stage) ==
    [page |-> FALSE,
     context |-> stage = "new_page",
     browser |-> stage \in {"new_context", "new_page"},
     playwright |-> stage \in {"launch", "new_context", "new_page"},
     is_initialized |-> FALSE]

\* The resources whose close raised something other than "already closed": these
\* are logged as errors, the others are ignored.
CloseErrorsLogged(b, closes) ==
    {r \in {"page", "context", "browser"} : b[r] /\ closes[r] = "error"}

\* BrowserManager.cleanup with one try around all the close calls: the first
\* close that raises ends the cleanup in the outer handler.
BrowserCleanupUnguarded(b, closes) ==
    LET left == IF b.page /\ closes.page # "ok" THEN b
                ELSE IF b.context /\ closes.context # "ok"
                THEN [b EXCEPT !.page = FALSE]
                ELSE IF b.browser /\ closes.browser # "ok"
                THEN [b EXCEPT !.page = FALSE, !.context = FALSE]
                ELSE NoBrowser
    IN  [browser |-> left, raised |-> FALSE, logged |-> CloseErrorsLogged(b, closes)]

\* BrowserManager.cleanup: page, context, browser and playwright are closed in
\* turn, each in its own try/except; each reference is set to None whatever its
\* close did, then _is_initialized is cleared.  No exception leaves it.
BrowserCleanup(b, closes) ==
    LET after_page    == [b EXCEPT !.page = FALSE]
        after_context == [after_page EXCEPT !.context = FALSE]
        after_browser == [after_context EXCEPT !.browser = FALSE]
        after_stop    == [after_browser EXCEPT !.playwright = FALSE]
    IN  [browser |-> [after_stop EXCEPT !.is_initialized = FALSE],
         raised  |-> FALSE,
         logged  |-> CloseErrorsLogged(b, closes)]

Closes == [{"page", "context", "browser", "playwright"} -> CloseOutcomes]

RunInit ==
    [kind |-> None, mode |-> None, pc |-> "idle", status |-> "PENDING",
     n |-> 0,                    \* items of the job
     idx |-> 0,                  \* items handled
     items_started |-> 0,        \* items begun (ghost)
     browser |-> NoBrowser,
     cleanup_ran |-> FALSE,
     close_errors |-> {},        \* closes whose error cleanup logged
     raised |-> FALSE,           \* an exception left cleanup or the call
     cancel_requested |-> FALSE, \* a cancel request was made for the job (ghost)
     nav_error |-> FALSE,        \* a navigation error was raised (ghost)
     failed_by |-> None,         \* what made the job FAILED (ghost)
     errors |-> <<>>,            \* job.errors
     downloads |-> <<>>,         \* job.downloads: the status of each result
     case_results |-> <<>>,      \* job.case_results: the status of each case
     error_events |-> 0,         \* send_error calls made for the session
     item_failures |-> 0,        \* items or documents that failed (ghost)
     logged_in |-> FALSE,        \* login() returned True (ghost)
     transcripts_downloaded |-> 0, \* job.(total_)transcripts_downloaded
     successes |-> 0]            \* download results with status SUCCESS (ghost)

\* job.case_numbers: the case number at each position of the list.
CaseNumberAt(i) == IF i = 1 THEN "case1" ELSE IF i = 2 THEN "case2" ELSE "case3"

\* CaseNumber(case_number=...) at the start of process_case, and the position of
\* the call.  submissions lists the case numbers given to submit_case_number.
CaseInit(case_number) ==
    [pc |-> "submitting", case_number |-> case_number, status |-> "pending",
     errors |-> <<>>, transcripts_found |-> 0, transcripts_downloaded |-> 0,
     idx |-> 0,                  \* position in transcript_entries
     submissions |-> <<>>,
     recovered |-> 0]            \* recoveries that reached the results page (ghost)

\* No process_case call is running.
CaseIdle == [CaseInit(None) EXCEPT !.pc = "idle"]

\* The except handler of process_case losing the exception's message.
CaseFailedNoMessage(c, message) ==
    [c EXCEPT !.status = "failed", !.pc = "returned"]

\* The except handler of process_case, and its early returns with a failure:
\* the case is failed with the message and returned.
CaseFailed(c, message) ==
    [c EXCEPT !.status = "failed", !.errors = Append(@, message), !.pc = "returned"]

\* _recover_to_results_page submitting some other case number than the one it
\* was given.
RecoverSubmissionOther(c) ==
    Append(c.submissions, IF c.case_number = "case1" THEN "case2" ELSE "case1")

\* _recover_to_results_page: submit_case_number(case_number).
RecoverSubmission(c) == Append(c.submissions, c.case_number)

\* process_case recording a download result that is not SUCCESS under a wrong
\* test: nothing is appended to the case's errors.
RecordDownloadDropsError(c, status) ==
    IF status = "SUCCESS"
    THEN [c EXCEPT !.transcripts_downloaded = @ + 1]
    ELSE c

\* process_case recording a download result: SUCCESS counts a download, any
\* other status appends the result's message to the case's errors.
RecordDownload(c, status) ==
    IF status = "SUCCESS"
    THEN [c EXCEPT !.transcripts_downloaded = @ + 1]
    ELSE [c EXCEPT !.errors = Append(@, "doc_" \o status)]

\* process_transcript_entry: the status of the CMECFDownloadResult it returns.
\* download is what download_document did: "SUCCESS", "FAILED" or "raised".
EntryStatus(has_link, clicked, download) ==
    IF ~has_link THEN "NO_LINK"
    ELSE IF ~clicked THEN "FAILED"
    ELSE IF download = "SUCCESS" THEN "SUCCESS"
    ELSE "FAILED"

DownloadOutcomes == {"SUCCESS", "FAILED", "raised"}

RecoveryOutcomes == {"ok", "goto_raises", "submit_fails", "results_fail"}

-----------------------------------------------------------------------------
(* Actions of the decision channel and the Bloomberg workflow *)

\* A websocket_endpoint call that is over (or not begun): its loop was left by
\* WebSocketDisconnect ("closed") or by another exception ("failed").
NoSocket(status) == [status |-> status, client |-> None, ignored |-> 0]

InitDecision ==
    /\ sockets = [s \in Sockets |-> NoSocket("closed")]
    /\ active_connections = [c \in Clients |-> None]
    /\ pending_responses = [c \in Clients |-> None]
    /\ fut = [j \in Jobs |-> [state |-> "none", result |-> NoneResp]]
    /\ pc = [j \in Jobs |-> "idle"]
    /\ job = [j \in Jobs |-> NoJobData]
    /\ prompted = {}
    /\ discarded = FALSE

\* websocket_endpoint up to its first receive: connect() accepts the socket and
\* registers it under client_id, replacing whatever was registered.
Connect(s, c) ==
    /\ sockets[s].status \in {"closed", "failed"}
    /\ sockets' = [sockets EXCEPT ![s] = [status |-> "open", client |-> c, ignored |-> 0]]
    /\ active_connections' = [active_connections EXCEPT ![c] = s]
    /\ UNCHANGED <<pending_responses, fut, pc, job, prompted, discarded, cap, sm, run, cse, saved>>

\* websocket_endpoint when receive_json raises WebSocketDisconnect.
Disconnect(s) ==
    /\ sockets[s].status = "open"
    /\ sockets' = [sockets EXCEPT ![s] = NoSocket("closed")]
    /\ active_connections' = DisconnectClient(sockets[s].client)
    /\ UNCHANGED <<pending_responses, fut, pc, job, prompted, discarded, cap, sm, run, cse, saved>>

\* websocket_endpoint handling one inbound message {type: "user_response",
\* data: data}.  The operator answers a prompt that reached them (data.re).  An
\* exception out of the handler ends the loop in "except Exception": the error is
\* logged, disconnect() runs and the socket is left "failed".
ReceiveUserResponse(s, data) ==
    /\ sockets[s].status = "open"
    /\ LET out == SetUserResponse(sockets[s].client, data)
       IN  /\ fut' = out.fut
           /\ discarded' = (discarded \/ out.fut = fut)
           /\ IF out.raised
              THEN /\ sockets' = [sockets EXCEPT ![s] = NoSocket("failed")]
                   /\ active_connections' = DisconnectClient(sockets[s].client)
              ELSE UNCHANGED <<sockets, active_connections>>
    /\ UNCHANGED <<pending_responses, pc, job, prompted, cap, sm, run, cse, saved>>

\* websocket_endpoint with an else branch that raises: the loop is left through
\* "except Exception" and the connection of the client is removed.
ReceiveOtherFatal(s, type) ==
    /\ sockets[s].status = "open"
    /\ type \in {"ping", "unknown"}
    /\ IF type = "unknown"
       THEN /\ sockets[s].ignored < MaxUnknown
            /\ sockets' = [sockets EXCEPT ![s] = [NoSocket("failed") EXCEPT
                                                    !.ignored = sockets[s].ignored + 1]]
            /\ active_connections' = DisconnectClient(sockets[s].client)
       ELSE UNCHANGED <<sockets, active_connections>>
    /\ UNCHANGED <<pending_responses, fut, pc, job, prompted, discarded, cap, sm, run, cse, saved>>

\* websocket_endpoint handling a ping (answered with a pong) or a message of an
\* unrecognized type: a warning is logged (counted in ignored) and the loop goes
\* on to the next receive_json.
ReceiveOther(s, type) ==
    /\ sockets[s].status = "open"
    /\ type \in {"ping", "unknown"}
    /\ IF type = "unknown"
       THEN /\ sockets[s].ignored < MaxUnknown
            /\ sockets' = [sockets EXCEPT ![s].ignored = @ + 1]
       ELSE UNCHANGED sockets
    /\ UNCHANGED <<active_connections, pending_responses, fut, pc, job, prompted, discarded,
                   cap, sm, run, cse, saved>>

\* start_scraping: a task running run_scraping_job for client_id c; initialize
\* and login have succeeded when the task reaches perform_search.
StartScraping(j, c) ==
    /\ pc[j] = "idle"
    /\ pc' = [pc EXCEPT ![j] = "searching"]
    /\ job' = [job EXCEPT ![j].client = c]
    /\ UNCHANGED <<sockets, active_connections, pending_responses, fut, prompted, discarded, cap, sm, run, cse, saved>>

\* Page1Handler.perform_search up to the court decision: a single exact match is
\* selected without asking; otherwise _handle_court_selection emits the prompt.
PerformSearch(j, all_options, exact_matches) ==
    /\ pc[j] = "searching"
    /\ IF Len(exact_matches) = 1
       THEN /\ job' = [job EXCEPT ![j].all_options = all_options,
                                  ![j].selected_court = exact_matches[1]]
            /\ pc' = [pc EXCEPT ![j] = "processing"]
            /\ UNCHANGED prompted
       ELSE /\ job' = [job EXCEPT ![j].all_options = all_options]
            /\ pc' = [pc EXCEPT ![j] = "court_prompted"]
            /\ prompted' = IF Delivered(job[j].client)
                           THEN prompted \cup {Req(j, "court")} ELSE prompted
    /\ UNCHANGED <<sockets, active_connections, pending_responses, fut, discarded, cap, sm, run, cse, saved>>

\* wait_for_user_response, called after the prompt was sent, up to its await.
WaitForUserResponse(j) ==
    /\ pc[j] \in {"court_prompted", "entries_prompted"}
    /\ WaitRegister(j)
    /\ pc' = [pc EXCEPT ![j] = IF pc[j] = "court_prompted" THEN "await_court"
                                ELSE "await_entries"]
    /\ UNCHANGED <<sockets, active_connections, job, prompted, discarded, cap, sm, run, cse, saved>>

\* asyncio.wait_for called with timeout=None: no timer is set, the wait never
\* elapses.
TimeoutNone(j) ==
    /\ pc[j] \in Awaiting
    /\ fut[j].state = "pending"
    /\ FALSE
    /\ UNCHANGED vars

\* asyncio.wait_for when the 300 s elapse: the awaited future is cancelled.
Timeout(j) ==
    /\ pc[j] \in Awaiting
    /\ fut[j].state = "pending"
    /\ fut' = [fut EXCEPT ![j].state = "cancelled"]
    /\ UNCHANGED <<sockets, active_connections, pending_responses, pc, job, prompted, discarded, cap, sm, run, cse, saved>>

\* _handle_court_selection from the wake-up of its wait to its return into
\* perform_search.
ResumeCourtSelection(j) ==
    /\ pc[j] = "await_court"
    /\ fut[j].state \in {"done", "cancelled"}
    /\ LET ret == WaitReturn(j)
       IN  /\ pending_responses' = ret.pending
           /\ job' = [job EXCEPT ![j].returned_none = (ret.response.shape = "none"),
                                 ![j].selected_court =
                                     SelectedCourt(ret.response, job[j].all_options)]
    /\ fut' = [fut EXCEPT ![j] = [state |-> "none", result |-> NoneResp]]
    /\ pc' = [pc EXCEPT ![j] = "processing"]
    /\ UNCHANGED <<sockets, active_connections, prompted, discarded, cap, sm, run, cse, saved>>

\* process_single_document up to the entry decision: a document without
\* downloadable entries is skipped, otherwise _handle_transcript_download emits
\* the prompt.
ExtractEntries(j, n) ==
    /\ pc[j] = "processing"
    /\ job' = [job EXCEPT ![j].entries = n, ![j].selected_court = None,
                          ![j].returned_none = FALSE]
    /\ IF n = 0
       THEN /\ pc' = [pc EXCEPT ![j] = "returning"]
            /\ UNCHANGED prompted
       ELSE /\ pc' = [pc EXCEPT ![j] = "entries_prompted"]
            /\ prompted' = IF Delivered(job[j].client)
                           THEN prompted \cup {Req(j, "entries")} ELSE prompted
    /\ UNCHANGED <<sockets, active_connections, pending_responses, fut, discarded, cap, sm, run, cse, saved>>

\* _handle_transcript_download from the wake-up of its wait to the entries it
\* downloads (state DOWNLOADING), or to its return when the action is skip.
ResumeTranscriptDownload(j) ==
    /\ pc[j] = "await_entries"
    /\ fut[j].state \in {"done", "cancelled"}
    /\ LET ret == WaitReturn(j)
       IN  /\ pending_responses' = ret.pending
           /\ job' = [job EXCEPT ![j].returned_none = (ret.response.shape = "none"),
                                 ![j].to_download =
                                     EntriesToDownload(ret.response, job[j].entries)]
    /\ fut' = [fut EXCEPT ![j] = [state |-> "none", result |-> NoneResp]]
    /\ pc' = [pc EXCEPT ![j] = IF TranscriptAction(WaitReturn(j).response) = "skip"
                                THEN "returning" ELSE "downloading"]
    /\ UNCHANGED <<sockets, active_connections, prompted, discarded, cap, sm, run, cse, saved>>

\* The prompts of client c's jobs that reached an operator.
PromptsOf(c) == {r \in prompted : job[r.job].client = c}

\* Under Spec one websocket is in use, and, client ids being interchangeable, the
\* job j1 runs for c1 while j2 runs for either client.  Messages of an
\* unrecognized type change none of the program's state: they are left to
\* SpecEndpoint.
SpecSockets == {"s1"}

ClientsFor(j) == IF j = "j1" THEN {"c1"} ELSE Clients

Next ==
    \/ \E s \in SpecSockets, c \in Clients : Connect(s, c)
    \/ \E s \in SpecSockets : Disconnect(s)
    \/ \E s \in SpecSockets :
          \E r \in PromptsOf(sockets[s].client) :
              \E data \in AnswersTo(r) : ReceiveUserResponse(s, data)
    \/ \E s \in SpecSockets : ReceiveOther(s, "ping")
    \/ \E j \in Jobs : \E c \in ClientsFor(j) : StartScraping(j, c)
    \/ \E j \in Jobs, o \in OptionLists :
          \E e \in {<<>>, <<o[1]>>, <<o[1], o[2]>>} : PerformSearch(j, o, e)
    \/ \E j \in Jobs : WaitForUserResponse(j)
    \/ \E j \in Jobs : Timeout(j)
    \/ \E j \in Jobs : ResumeCourtSelection(j)
    \/ \E j \in Jobs, n \in 0..MaxEntries : ExtractEntries(j, n)
    \/ \E j \in Jobs : ResumeTranscriptDownload(j)

Init ==
    /\ InitDecision
    /\ cap = CapInit(NoBytes) /\ sm = SMInit(TRUE) /\ run = RunInit /\ cse = CaseIdle
    /\ saved = NoFiles

Spec == Init /\ [][Next]_vars

\* The event loop runs every timer that is due and every task that is ready: a
\* wait's timeout fires unless the future is resolved first, and a task whose
\* future is resolved or cancelled resumes.
Fairness ==
    \A j \in Jobs :
        /\ WF_vars(Timeout(j))
        /\ WF_vars(ResumeCourtSelection(j))
        /\ WF_vars(ResumeTranscriptDownload(j))

\* The decision channel with every job on the session c1 and one way of
\* writing each answer: what a wait goes through does not depend on more.
NextWait ==
    \/ \E s \in SpecSockets, c \in Clients : Connect(s, c)
    \/ \E s \in SpecSockets : Disconnect(s)
    \/ \E s \in SpecSockets :
          \E r \in PromptsOf(sockets[s].client) :
              \E data \in {d \in AnswersTo(r) : d.shape # "nested"} :
                  ReceiveUserResponse(s, data)
    \/ \E j \in Jobs : StartScraping(j, "c1")
    \/ \E j \in Jobs, o \in OptionLists : PerformSearch(j, o, <<>>)
    \/ \E j \in Jobs : WaitForUserResponse(j)
    \/ \E j \in Jobs : Timeout(j)
    \/ \E j \in Jobs : ResumeCourtSelection(j)
    \/ \E j \in Jobs, n \in 0..MaxEntries : ExtractEntries(j, n)
    \/ \E j \in Jobs : ResumeTranscriptDownload(j)

SpecWait == Init /\ [][NextWait]_vars /\ Fairness

\* The websocket endpoint with two connections, every message type, and one
\* job of the session c1 going through its decisions.
NextEndpoint ==
    \/ \E s \in Sockets, c \in Clients : Connect(s, c)
    \/ \E s \in Sockets : Disconnect(s)
    \/ \E s \in Sockets :
          \E r \in PromptsOf(sockets[s].client) :
              \E data \in AnswersTo(r) : ReceiveUserResponse(s, data)
    \/ \E s \in Sockets, type \in MessageTypes : ReceiveOther(s, type)
    \/ StartScraping("j1", "c1")
    \/ \E o \in OptionLists : PerformSearch("j1", o, <<>>)
    \/ WaitForUserResponse("j1")
    \/ Timeout("j1")
    \/ ResumeCourtSelection("j1")
    \/ \E n \in 0..MaxEntries : ExtractEntries("j1", n)
    \/ ResumeTranscriptDownload("j1")

SpecEndpoint == Init /\ [][NextEndpoint]_vars

-----------------------------------------------------------------------------
(* Actions of one download_document call and of the browser around it *)

\* A strategy produced the bytes b (kept to state what the strategies offered).
Produced(c, b) ==
    IF c.first_valid # NoBytes THEN c
    ELSE IF IsValidPdf(b) THEN [c EXCEPT !.first_valid = b]
    ELSE [c EXCEPT !.invalid_from = @ \cup {Strategy(b)}]

\* with open(filepath, 'wb') as f: f.write(content), and download.save_as(filepath)
WriteFile(c, b) == [c EXCEPT !.file = b, !.written = Append(@, b)]

Finish(c, st) == [c EXCEPT !.pc = "done", !.status = st]

\* download_document up to Method 1, and click_view_document_and_download up to
\* its arming: an error page or a page without the button fails the call; a
\* button that never becomes visible ends Method 1.
DownloadDocumentStart(on_error_page, on_detail_page, visible) ==
    /\ cap.pc = "idle"
    /\ cap' = IF on_error_page \/ ~on_detail_page THEN Finish(cap, "FAILED")
              ELSE IF ~visible
              THEN [cap EXCEPT !.pc = "form", !.attempted = @ \cup {"interception"}]
              ELSE [cap EXCEPT !.pc = "arming", !.attempted = @ \cup {"interception"}]
    /\ UNCHANGED <<saved, decisionVars, sm, run, cse>>

\* The arming without the route: only the page listener is installed.
ArmListenerOnly ==
    /\ cap.pc = "arming"
    /\ cap' = [cap EXCEPT !.listener = TRUE, !.pc = "armed"]
    /\ UNCHANGED <<saved, decisionVars, sm, run, cse>>

\* browser_context.on('page', on_page), then browser_context.route('**/*', ...)
Arm ==
    /\ cap.pc = "arming"
    /\ cap' = [cap EXCEPT !.listener = TRUE, !.ctx_route = TRUE, !.pc = "armed"]
    /\ UNCHANGED <<saved, decisionVars, sm, run, cse>>

\* original_page.click(view_doc_selector); when it raises, the finally block
\* removes listener and route and Method 1 returns None.
Click(ok) ==
    /\ cap.pc = "armed"
    /\ cap' = IF ok THEN [cap EXCEPT !.clicked = TRUE, !.pc = "waiting"]
              ELSE [cap EXCEPT !.listener = FALSE, !.ctx_route = FALSE, !.pc = "form"]
    /\ UNCHANGED <<saved, decisionVars, sm, run, cse>>

\* asyncio.wait(..., timeout=15.0, return_when=FIRST_COMPLETED) returns: at once
\* when one of the two events is set, otherwise when the 15 s are over.  The
\* tasks still pending are cancelled.
WaitReturns ==
    /\ cap.pc = "waiting"
    /\ cap' = [cap EXCEPT
                 !.pc = "cleanup",
                 !.timed_out = ~(cap.new_page_event \/ cap.pdf_captured_event),
                 !.wait_tasks = [new_page |-> IF cap.new_page_event THEN "done"
                                              ELSE "cancelled",
                                 pdf      |-> IF cap.pdf_captured_event THEN "done"
                                              ELSE "cancelled"]]
    /\ UNCHANGED <<saved, decisionVars, sm, run, cse>>

\* The finally block and the checks after it, without the check of
\* captured_pdf_content.
CleanupIgnoringCapture ==
    /\ cap.pc = "cleanup"
    /\ LET c == [cap EXCEPT !.listener = FALSE, !.ctx_route = FALSE]
       IN  cap' = IF c.captured_new_page THEN [c EXCEPT !.pc = "popup_route"]
                  ELSE [c EXCEPT !.pc = "case2"]
    /\ UNCHANGED <<saved, decisionVars, sm, run, cse>>

\* The finally block (remove_listener, unroute) and the checks that follow it.
Cleanup ==
    /\ cap.pc = "cleanup"
    /\ LET c == [cap EXCEPT !.listener = FALSE, !.ctx_route = FALSE]
       IN  cap' = IF c.captured_pdf_content # NoBytes
                  THEN Finish(WriteFile(c, c.captured_pdf_content), "SUCCESS")
                  ELSE IF c.captured_new_page THEN [c EXCEPT !.pc = "popup_route"]
                  ELSE [c EXCEPT !.pc = "case2"]
    /\ UNCHANGED <<saved, decisionVars, sm, run, cse>>

\* CASE 1: new_page.route('**/*', intercept_pdf_response); an exception is caught
\* by the popup handler and the flow goes on to CASE 2.
RoutePopup(ok) ==
    /\ cap.pc = "popup_route"
    /\ cap' = IF ok THEN [cap EXCEPT !.popup_route = TRUE, !.pc = "popup_wait"]
              ELSE [cap EXCEPT !.pc = "case2"]
    /\ UNCHANGED <<saved, decisionVars, sm, run, cse>>

\* CASE 1 after wait_for_load_state and sleep(3): content captured meanwhile is
\* written, then the popup is unrouted; an exception (of the load or of this
\* unroute) is caught by the popup handler and the flow goes on to CASE 2.
PopupCheck(loaded, unroute_ok) ==
    /\ cap.pc = "popup_wait"
    /\ cap' = IF ~loaded THEN [cap EXCEPT !.popup_route = FALSE, !.pc = "case2"]
              ELSE IF cap.captured_pdf_content # NoBytes
              THEN LET c == [WriteFile(cap, cap.captured_pdf_content)
                                EXCEPT !.popup_route = FALSE]
                   IN  IF unroute_ok THEN Finish(c, "SUCCESS")
                       ELSE [c EXCEPT !.pc = "case2"]
              ELSE [cap EXCEPT !.pc = "popup_viewer"]
    /\ UNCHANGED <<saved, decisionVars, sm, run, cse>>

\* CASE 1, _download_from_pdf_viewer(new_page, filepath): a download the browser
\* starts is saved; then the popup is unrouted.
PopupViewer(outcome, unroute_ok) ==
    /\ cap.pc = "popup_viewer"
    /\ LET a == [cap EXCEPT !.attempted = @ \cup {"viewer"}]
       IN  cap' = IF outcome # NoBytes /\ ViewerAccepts(outcome)
                  THEN LET c == [WriteFile(Produced(a, outcome), outcome)
                                    EXCEPT !.popup_route = FALSE]
                       IN  IF unroute_ok THEN Finish(c, "SUCCESS")
                           ELSE [c EXCEPT !.pc = "case2"]
                  ELSE [a EXCEPT !.popup_route = FALSE, !.pc = "case2"]
    /\ UNCHANGED <<saved, decisionVars, sm, run, cse>>

\* CASE 2 after sleep(2): the viewer download on the original page when its URL
\* holds /doc1/; otherwise, or without a download, Method 1 returns None.
Case2(on_doc1, outcome) ==
    /\ cap.pc = "case2"
    /\ LET a == IF on_doc1 THEN [cap EXCEPT !.attempted = @ \cup {"viewer"}] ELSE cap
       IN  cap' = IF on_doc1 /\ outcome # NoBytes /\ ViewerAccepts(outcome)
                  THEN Finish(WriteFile(Produced(a, outcome), outcome), "SUCCESS")
                  ELSE [a EXCEPT !.pc = "form"]
    /\ UNCHANGED <<saved, decisionVars, sm, run, cse>>

\* Method 2: get_view_document_form_data, submit_form_and_get_pdf_url and
\* download_pdf_from_url.  outcome is the content of a 200 response for the
\* derived URL, NoBytes when a step before it fails.
FormSubmission(outcome) ==
    /\ cap.pc = "form"
    /\ LET a == [cap EXCEPT !.attempted = @ \cup {"form"}]
       IN  cap' = IF outcome = NoBytes THEN Finish(a, "FAILED")
                  ELSE IF FetchAccepts(outcome)
                  THEN Finish(WriteFile(Produced(a, outcome), outcome), "SUCCESS")
                  ELSE Finish(Produced(a, outcome), "FAILED")
    /\ UNCHANGED <<saved, decisionVars, sm, run, cse>>

\* The browser opens a popup after the click; on_page runs if still registered.
PopupOpens ==
    /\ cap.clicked /\ ~cap.popup_open /\ cap.pc # "done"
    /\ cap' = IF cap.listener
              THEN [cap EXCEPT !.popup_open = TRUE, !.captured_new_page = TRUE,
                               !.new_page_event = TRUE]
              ELSE [cap EXCEPT !.popup_open = TRUE]
    /\ UNCHANGED <<saved, decisionVars, sm, run, cse>>

\* The browser requests the document, from the original page or from the popup.
\* A route on the context sees every page's requests, a route on the popup its
\* own; an intercepted request starts intercept_pdf_response (route.fetch), any
\* other is rendered.
PdfRequest(from_popup) ==
    /\ cap.clicked /\ cap.pc # "done"
    /\ cap.requests < MaxRequests
    /\ from_popup => cap.popup_open
    /\ cap' = IF cap.ctx_route \/ (from_popup /\ cap.popup_route)
              THEN [cap EXCEPT !.requests = @ + 1, !.inflight = @ + 1]
              ELSE [cap EXCEPT !.requests = @ + 1, !.shown = TRUE]
    /\ UNCHANGED <<saved, decisionVars, sm, run, cse>>

\* intercept_pdf_response once route.fetch answers: a body with the signature is
\* kept and the event set; body is NoBytes when the fetch raises.
InterceptFinish(body) ==
    /\ cap.inflight > 0 /\ cap.pc # "done"
    /\ LET c == [cap EXCEPT !.inflight = @ - 1, !.served = @ + 1]
       IN  cap' = IF body = NoBytes THEN c
                  ELSE IF InterceptAccepts(body)
                  THEN [Produced(c, body) EXCEPT !.captured_pdf_content = body,
                                                 !.pdf_captured_event = TRUE]
                  ELSE Produced(c, body)
    /\ UNCHANGED <<saved, decisionVars, sm, run, cse>>

NextCapture ==
    \/ \E e, d, v \in BOOLEAN : DownloadDocumentStart(e, d, v)
    \/ Arm
    \/ \E ok \in BOOLEAN : Click(ok)
    \/ WaitReturns
    \/ Cleanup
    \/ \E ok \in BOOLEAN : RoutePopup(ok)
    \/ \E loaded, ok \in BOOLEAN : PopupCheck(loaded, ok)
    \/ \E b \in {NoBytes} \cup BytesFrom("popup_viewer"), ok \in BOOLEAN : PopupViewer(b, ok)
    \/ \E on_doc1 \in BOOLEAN, b \in {NoBytes} \cup BytesFrom("page_viewer") : Case2(on_doc1, b)
    \/ \E b \in {NoBytes} \cup BytesFrom("fetch") : FormSubmission(b)
    \/ PopupOpens
    \/ \E from_popup \in BOOLEAN : PdfRequest(from_popup)
    \/ \E b \in {NoBytes} \cup BytesFrom(RouteSrc(cap.served + 1)) : InterceptFinish(b)

InitCapture ==
    /\ InitDecision
    /\ cap \in {CapInit(NoBytes), CapInit(OldFile)}
    /\ sm = SMInit(TRUE)
    /\ run = RunInit
    /\ cse = CaseIdle
    /\ saved = NoFiles

SpecCapture == InitCapture /\ [][NextCapture]_vars

-----------------------------------------------------------------------------
(* Actions of the state machine *)

captureVars == <<cap>>

\* _on_state_change -> send_state_change -> send_event, up to the await of
\* websocket.send_json: the event holds the new state and the machine's
\* previous_state; nothing is sent when client_id has no registered connection;
\* a send that fails is logged and the event is lost.
SendStateChange(m, send_ok) ==
    IF m.connected /\ send_ok
    THEN [m EXCEPT !.events = Append(@, [state |-> m.current_state,
                                         previous_state |-> m.previous_state])]
    ELSE m

\* transition_to called by task t, up to the first point where the call is
\* suspended: it records the transition and awaits the callback, which suspends
\* in websocket.send_json when the session is connected.  With no callback
\* registered, or no connection, nothing suspends and the call returns at once.
TransitionTo(t, new_state, send_ok) ==
    /\ sm.calls[t].pc = "idle"
    /\ sm.ncalls < MaxTransitions
    /\ LET m == TransitionRecord(sm, new_state)
           e == IF m.on_state_change THEN SendStateChange(m, send_ok) ELSE m
       IN  sm' = [e EXCEPT !.ncalls = @ + 1,
                           !.calls[t] = IF m.on_state_change /\ m.connected
                                        THEN [pc |-> "observer", result |-> None]
                                        ELSE [pc |-> "idle", result |-> "returned"]]
    /\ UNCHANGED <<saved, decisionVars, captureVars, run, cse>>

\* The session's websocket connects (connect) or goes away (disconnect).
SessionConnection(c) ==
    /\ sm.connected # c
    /\ sm' = [sm EXCEPT !.connected = c]
    /\ UNCHANGED <<saved, decisionVars, captureVars, run, cse>>

\* The awaited callback returns and so does transition_to.
ObserverReturns(t) ==
    /\ sm.calls[t].pc = "observer"
    /\ sm' = [sm EXCEPT !.calls[t] = [pc |-> "idle", result |-> "returned"]]
    /\ UNCHANGED <<saved, decisionVars, captureVars, run, cse>>

\* The awaited callback raises: nothing in transition_to catches it.
ObserverRaises(t) ==
    /\ sm.calls[t].pc = "observer"
    /\ sm' = [sm EXCEPT !.calls[t] = [pc |-> "idle", result |-> "raised"]]
    /\ UNCHANGED <<saved, decisionVars, captureVars, run, cse>>

\* StateMachine.update_context(**kwargs): the keys are merged into the context.
UpdateContext(keys) ==
    /\ keys # {} /\ ~(keys \subseteq sm.context)
    /\ sm' = [sm EXCEPT !.context = @ \cup keys]
    /\ UNCHANGED <<saved, decisionVars, captureVars, run, cse>>

\* StateMachine.clear_context
ClearContext ==
    /\ sm.context # {}
    /\ sm' = [sm EXCEPT !.context = {}]
    /\ UNCHANGED <<saved, decisionVars, captureVars, run, cse>>

\* StateMachine.reset, callable in every state of the machine (also while a
\* transition_to call is suspended in its callback).
Reset ==
    /\ sm' = ResetMachine(sm)
    /\ UNCHANGED <<saved, decisionVars, captureVars, run, cse>>

NextSM ==
    \/ \E t \in Callers, st \in SMStates, ok \in BOOLEAN : TransitionTo(t, st, ok)
    \/ \E c \in BOOLEAN : SessionConnection(c)
    \/ \E t \in Callers : ObserverReturns(t)
    \/ \E t \in Callers : ObserverRaises(t)
    \/ \E keys \in SUBSET ContextKeys : UpdateContext(keys)
    \/ ClearContext
    \/ Reset

InitSM ==
    /\ InitDecision
    /\ cap = CapInit(NoBytes)
    /\ sm \in {SMInit(TRUE), SMInit(FALSE)}
    /\ run = RunInit
    /\ cse = CaseIdle
    /\ saved = NoFiles

SpecSM == InitSM /\ [][NextSM]_vars

-----------------------------------------------------------------------------
(* Actions of one run_scraping_job call *)

\* The transition_to calls a workflow step makes one after the other: each
\* records its transition and awaits the callback, which sends the state-change
\* event when the session is connected.
RECURSIVE TransitionAll(_, _)
TransitionAll(m, states) ==
    IF states = <<>> THEN m
    ELSE LET r == TransitionRecord(m, Head(states))
         IN  TransitionAll(IF r.on_state_change THEN SendStateChange(r, TRUE) ELSE r,
                           Tail(states))

\* job.mark_failed(...) and the way to the finally block.
Fail(r, cause) ==
    [r EXCEPT !.status = "FAILED", !.failed_by = cause,
              !.errors = Append(@, cause), !.pc = "cleanup"]

\* start_scraping / start_cmecf_scraping create the task; run_scraping_job marks
\* the job started.  The job object is not entered in the jobs registry of
\* api/routes.py.
RunScrapingJob(kind, mode, n) ==
    /\ run.pc = "idle"
    /\ run' = [run EXCEPT !.kind = kind, !.n = n, !.status = "RUNNING",
                          !.mode = IF kind = "bloomberg" THEN mode ELSE None,
                          !.pc = "initializing"]
    /\ UNCHANGED <<saved, decisionVars, captureVars, sm, cse>>

\* initialize() without the raise of its except handler: after the transition
\* to ERROR the call returns and run_scraping_job goes on to login.
InitializeSwallowsError(stage, closes) ==
    /\ run.pc = "initializing"
    /\ run' = IF stage = "ok"
              THEN [run EXCEPT !.browser = FullBrowser, !.pc = "logging_in"]
              ELSE [run EXCEPT
                      !.browser = BrowserCleanup(PartialBrowser(stage), closes).browser,
                      !.pc = "logging_in"]
    /\ sm' = TransitionAll(sm, IF stage = "ok" THEN <<"initializing">>
                               ELSE <<"initializing", "error">>)
    /\ UNCHANGED <<saved, decisionVars, captureVars, cse>>

\* initialize(): transition to INITIALIZING; BrowserManager.initialize succeeds,
\* or fails at a stage, cleans up what it created and re-raises; the scraper
\* then makes the transition to ERROR and re-raises into run_scraping_job.
Initialize(stage, closes) ==
    /\ run.pc = "initializing"
    /\ run' = IF stage = "ok"
              THEN [run EXCEPT !.browser = FullBrowser, !.pc = "logging_in"]
              ELSE [run EXCEPT
                      !.browser = BrowserCleanup(PartialBrowser(stage), closes).browser,
                      !.failed_by = "initialize",
                      !.pc = "except"]
    /\ sm' = TransitionAll(sm, IF stage = "ok" THEN <<"initializing">>
                               ELSE <<"initializing", "error">>)
    /\ UNCHANGED <<saved, decisionVars, captureVars, cse>>

\* run_scraping_job going on to the next phase whatever login() returned.
LoginIgnoresFailure(success) ==
    /\ run.pc = "logging_in"
    /\ run' = IF ~success THEN [run EXCEPT !.failed_by = "login", !.pc = "between"]
              ELSE IF run.kind = "bloomberg"
              THEN [run EXCEPT !.logged_in = TRUE, !.pc = "searching"]
              ELSE [run EXCEPT !.logged_in = TRUE, !.pc = "between"]
    /\ sm' = TransitionAll(sm, <<"logging_in">>)
    /\ UNCHANGED <<saved, decisionVars, captureVars, cse>>

\* login(): transition to LOGGING_IN; False (also on an exception, caught
\* inside) fails the job.
Login(success) ==
    /\ run.pc = "logging_in"
    /\ run' = IF ~success THEN [Fail(run, "login") EXCEPT !.error_events = @ + 1]
              ELSE IF run.kind = "bloomberg"
              THEN [run EXCEPT !.logged_in = TRUE, !.pc = "searching"]
              ELSE [run EXCEPT !.logged_in = TRUE, !.pc = "between"]
    /\ sm' = TransitionAll(sm, <<"logging_in">>)
    /\ UNCHANGED <<saved, decisionVars, captureVars, cse>>

\* BloombergScraper.perform_search: transition to SEARCHING, and to
\* AWAITING_COURT_SELECTION when the court has to be asked for; False (also on an
\* exception, caught inside) fails the job.
SearchPhase(success, asked) ==
    /\ run.pc = "searching"
    /\ run' = IF success THEN [run EXCEPT !.pc = "listing"]
              ELSE [Fail(run, "search") EXCEPT !.error_events = @ + 1]
    /\ sm' = TransitionAll(sm, IF asked THEN <<"searching", "awaiting_court_selection">>
                               ELSE <<"searching">>)
    /\ UNCHANGED <<saved, decisionVars, captureVars, cse>>

\* BloombergScraper.process_documents, and process_documents_automated up to
\* its loop: transition to PROCESSING_RESULTS; wait_for_results re-raises when
\* the results list does not load, and nothing catches it before
\* run_scraping_job.
ProcessDocuments(loaded) ==
    /\ run.pc = "listing"
    /\ run' = IF loaded THEN [run EXCEPT !.pc = "between"]
              ELSE [run EXCEPT !.nav_error = TRUE, !.failed_by = "navigation",
                               !.pc = "except"]
    /\ sm' = TransitionAll(sm, <<"processing_results">>)
    /\ UNCHANGED <<saved, decisionVars, captureVars, cse>>

\* The loop header: the phase boundary before each item.  CM/ECF navigates to the
\* case-entry page before every case but the first.
NextItem ==
    /\ run.pc = "between"
    /\ run' = IF run.idx = run.n THEN [run EXCEPT !.pc = "completing"]
              ELSE IF run.kind = "cmecf" /\ run.idx > 0
              THEN [run EXCEPT !.items_started = @ + 1, !.pc = "navigating"]
              ELSE [run EXCEPT !.items_started = @ + 1, !.pc = "item"]
    /\ UNCHANGED <<saved, decisionVars, captureVars, sm, cse>>

\* CMECFScraper._navigate_to_case_entry: logs and re-raises a goto error.
NavigateToCaseEntry(ok) ==
    /\ run.pc = "navigating"
    /\ run' = IF ok THEN [run EXCEPT !.pc = "item"]
              ELSE [run EXCEPT !.nav_error = TRUE, !.failed_by = "navigation",
                               !.pc = "except"]
    /\ UNCHANGED <<saved, decisionVars, captureVars, sm, cse>>

\* The transitions one Bloomberg document goes through.  Manual mode asks for
\* the entries when there are any and returns without RETURNING_TO_RESULTS when
\* there are none; automated mode never asks.
ItemTransitions(mode, outcome) ==
    CASE outcome = "navigation_error" -> <<"navigating_to_document">>
      [] outcome = "error" -> <<"navigating_to_document", "extracting_entries">>
      [] outcome = "no_entries" ->
            IF mode = "manual"
            THEN <<"navigating_to_document", "extracting_entries">>
            ELSE <<"navigating_to_document", "extracting_entries",
                   "returning_to_results">>
      [] outcome = "skip" ->
            <<"navigating_to_document", "extracting_entries",
              "awaiting_transcript_selection", "returning_to_results">>
      [] outcome = "downloaded" ->
            IF mode = "manual"
            THEN <<"navigating_to_document", "extracting_entries",
                   "awaiting_transcript_selection", "downloading",
                   "returning_to_results">>
            ELSE <<"navigating_to_document", "extracting_entries", "downloading",
                   "returning_to_results">>

ItemOutcomes == {"navigation_error", "error", "no_entries", "skip", "downloaded"}

\* job.transcripts_downloaded after a document whose downloads had `successes`
\* results with status SUCCESS: the automated loop adds them, manual mode sets
\* only the document's own counter.
CountDownloads(mode, count, successes) ==
    IF mode = "automated" THEN count + successes ELSE count

\* One Bloomberg document: process_single_document (manual mode), or one pass of
\* the loop of process_documents_automated.  Every exception is caught inside
\* and reported with send_error.  successes is the number of SUCCESS results of
\* download_multiple_transcripts.
ProcessItem(outcome, successes) ==
    /\ run.pc = "item"
    /\ run.kind = "bloomberg"
    /\ outcome = "skip" => run.mode = "manual"
    /\ outcome # "downloaded" => successes = 0
    /\ LET failed == outcome \in {"navigation_error", "error"}
       IN  run' = [run EXCEPT
                     !.idx = @ + 1, !.pc = "between",
                     !.nav_error = @ \/ outcome = "navigation_error",
                     !.error_events = IF failed THEN @ + 1 ELSE @,
                     !.item_failures = IF failed THEN @ + 1 ELSE @,
                     !.successes = @ + successes,
                     !.transcripts_downloaded = CountDownloads(run.mode, @, successes)]
    /\ sm' = TransitionAll(sm, ItemTransitions(run.mode, outcome))
    /\ UNCHANGED <<saved, decisionVars, captureVars, cse>>

\* CMECFScraper.process_case is called for the case at the loop's position and
\* makes its transition to SEARCHING.
ProcessCase ==
    /\ run.pc = "item"
    /\ run.kind = "cmecf"
    /\ run' = [run EXCEPT !.pc = "in_case"]
    /\ cse' = CaseInit(CaseNumberAt(run.idx + 1))
    /\ sm' = TransitionAll(sm, <<"searching">>)
    /\ UNCHANGED <<saved, decisionVars, captureVars>>

\* case_entry_handler.submit_case_number: False fails the case.
SubmitCaseNumber(ok) ==
    /\ cse.pc = "submitting"
    /\ LET c == [cse EXCEPT !.submissions = Append(@, cse.case_number)]
       IN  cse' = IF ok THEN [c EXCEPT !.pc = "loading"]
                  ELSE CaseFailed(c, "Failed to submit case number")
    /\ UNCHANGED <<saved, decisionVars, captureVars, sm, run>>

\* results_handler.wait_for_results_page: False fails the case.
WaitForResultsPage(ok) ==
    /\ cse.pc = "loading"
    /\ cse' = IF ok THEN [cse EXCEPT !.pc = "extracting"]
              ELSE CaseFailed(cse, "Failed to load results page")
    /\ UNCHANGED <<saved, decisionVars, captureVars, sm, run>>

\* Transition to EXTRACTING_ENTRIES and results_handler.find_transcript_entries:
\* no entry completes the case.
FindTranscriptEntries(n) ==
    /\ cse.pc = "extracting"
    /\ cse' = IF n = 0
              THEN [cse EXCEPT !.status = "completed", !.pc = "returned"]
              ELSE [cse EXCEPT !.transcripts_found = n, !.pc = "entry"]
    /\ sm' = TransitionAll(sm, <<"extracting_entries">>)
    /\ UNCHANGED <<saved, decisionVars, captureVars, run>>

\* CMECFScrapingJob.add_download: the result is appended, and a SUCCESS counted
\* in total_transcripts_downloaded.
AddDownload(r, status) ==
    [r EXCEPT !.downloads = Append(@, status),
              !.transcripts_downloaded = IF status = "SUCCESS" THEN @ + 1 ELSE @]

\* CMECFScrapingJob.add_case_result: the case is stored and its
\* transcripts_downloaded added to total_transcripts_downloaded.
AddCaseResult(r, result) ==
    [r EXCEPT !.case_results = Append(@, result.status),
              !.transcripts_downloaded = @ + result.transcripts_downloaded]

\* One pass of the entry loop up to the back-navigation: process_transcript_entry
\* makes its transitions and returns a result (it catches every exception),
\* process_case records it in the case and in the job's downloads, and either
\* goes back for the next entry or completes the case.
ProcessTranscriptEntry(has_link, clicked, download) ==
    /\ cse.pc = "entry"
    /\ LET status == EntryStatus(has_link, clicked, download)
           c      == RecordDownload(cse, status)
       IN  /\ cse' = IF cse.idx < cse.transcripts_found - 1
                     THEN [c EXCEPT !.pc = "back"]
                     ELSE [c EXCEPT !.status = "completed", !.pc = "returned"]
           /\ run' = AddDownload([run EXCEPT
                                    !.item_failures = IF status = "SUCCESS" THEN @
                                                      ELSE @ + 1,
                                    !.successes = IF status = "SUCCESS" THEN @ + 1
                                                  ELSE @],
                                 status)
    /\ sm' = TransitionAll(sm, IF ~has_link THEN <<>>
                               ELSE IF ~clicked THEN <<"navigating_to_document">>
                               ELSE <<"navigating_to_document", "downloading">>)
    /\ UNCHANGED <<saved, decisionVars, captureVars>>

\* _navigate_back_to_results up to the results-page check: an error of
\* go_back_to_results is logged only; on the results page the loop goes on with
\* the next entry, otherwise recovery starts.
NavigateBackToResults(go_back_ok, on_results) ==
    /\ cse.pc = "back"
    /\ cse' = IF on_results THEN [cse EXCEPT !.idx = @ + 1, !.pc = "entry"]
              ELSE [cse EXCEPT !.pc = "recovering"]
    /\ sm' = TransitionAll(sm, <<"returning_to_results">>)
    /\ UNCHANGED <<saved, decisionVars, captureVars, run>>

\* _recover_to_results_page: go to the case-entry page, submit the case number
\* again, wait for the results page.  A goto error and the two RuntimeErrors
\* reach the except handler of process_case.
RecoverToResultsPage(outcome) ==
    /\ cse.pc = "recovering"
    /\ LET c == [cse EXCEPT !.submissions = RecoverSubmission(cse)]
       IN  /\ cse' = CASE outcome = "ok" ->
                           [c EXCEPT !.recovered = @ + 1, !.idx = @ + 1, !.pc = "entry"]
                       [] outcome = "goto_raises" ->
                           CaseFailed(cse, "navigation")
                       [] outcome = "submit_fails" ->
                           CaseFailed(c, "Recovery failed: could not re-submit case number")
                       [] outcome = "results_fail" ->
                           CaseFailed(c, "Recovery failed: results page did not load")
           /\ run' = [run EXCEPT !.nav_error = @ \/ outcome = "goto_raises",
                                 !.item_failures = IF outcome = "ok" THEN @ ELSE @ + 1]
    /\ UNCHANGED <<saved, decisionVars, captureVars, sm>>

\* process_case has returned: add_case_result, cases_processed += 1, and each of
\* the case's errors is added to the job's errors.
ProcessCaseReturns ==
    /\ run.pc = "in_case"
    /\ cse.pc = "returned"
    /\ run' = [AddCaseResult(run, cse) EXCEPT !.errors = @ \o cse.errors,
                                              !.idx = @ + 1, !.pc = "between"]
    /\ cse' = [cse EXCEPT !.pc = "idle"]
    /\ UNCHANGED <<saved, decisionVars, captureVars, sm>>

\* transition_to(COMPLETED), job.mark_completed(), send_complete, return job.
Complete ==
    /\ run.pc = "completing"
    /\ run' = [run EXCEPT !.status = "COMPLETED", !.pc = "cleanup"]
    /\ sm' = TransitionAll(sm, <<"completed">>)
    /\ UNCHANGED <<saved, decisionVars, captureVars, cse>>

\* run_scraping_job without its except handler: the exception leaves the call
\* through the finally block.
ExceptReraises ==
    /\ run.pc = "except"
    /\ run' = [run EXCEPT !.raised = TRUE, !.pc = "cleanup"]
    /\ UNCHANGED <<saved, decisionVars, captureVars, sm, cse>>

\* except Exception: job.mark_failed(str(e)), send_error, return job.
Except ==
    /\ run.pc = "except"
    /\ run' = [Fail(run, run.failed_by) EXCEPT !.error_events = @ + 1]
    /\ UNCHANGED <<saved, decisionVars, captureVars, sm, cse>>

\* finally: await self.cleanup(), that is BrowserManager.cleanup and
\* state_machine.reset().
RunCleanup(closes) ==
    /\ run.pc = "cleanup"
    /\ LET out == BrowserCleanup(run.browser, closes)
       IN  run' = [run EXCEPT !.browser = out.browser, !.raised = @ \/ out.raised,
                              !.close_errors = out.logged,
                              !.cleanup_ran = TRUE, !.pc = "returned"]
    /\ sm' = ResetMachine(sm)
    /\ UNCHANGED <<saved, decisionVars, captureVars, cse>>

\* POST /jobs/{job_id}/cancel for the running job: its id is not in the jobs
\* registry (404); the task and the job object are not touched.
CancelJob ==
    /\ run.status = "RUNNING"
    /\ ~run.cancel_requested
    /\ run' = [run EXCEPT !.cancel_requested = TRUE]
    /\ UNCHANGED <<saved, decisionVars, captureVars, sm, cse>>

NextRun ==
    \/ \E k \in Kinds, m \in Modes, n \in 1..MaxItems : RunScrapingJob(k, m, n)
    \/ \E stage \in {"ok", "start", "launch", "new_context", "new_page"}, c \in Closes :
          Initialize(stage, c)
    \/ \E ok \in BOOLEAN : Login(ok)
    \/ \E ok, asked \in BOOLEAN : SearchPhase(ok, asked)
    \/ \E ok \in BOOLEAN : ProcessDocuments(ok)
    \/ NextItem
    \/ \E ok \in BOOLEAN : NavigateToCaseEntry(ok)
    \/ \E o \in ItemOutcomes, k \in 0..MaxEntries : ProcessItem(o, k)
    \/ ProcessCase
    \/ \E ok \in BOOLEAN : SubmitCaseNumber(ok)
    \/ \E ok \in BOOLEAN : WaitForResultsPage(ok)
    \/ \E n \in 0..MaxTranscripts : FindTranscriptEntries(n)
    \/ \E has_link, clicked \in BOOLEAN, d \in DownloadOutcomes :
          ProcessTranscriptEntry(has_link, clicked, d)
    \/ \E go_back_ok, on_results \in BOOLEAN : NavigateBackToResults(go_back_ok, on_results)
    \/ \E o \in RecoveryOutcomes : RecoverToResultsPage(o)
    \/ ProcessCaseReturns
    \/ Complete
    \/ Except
    \/ \E c \in Closes : RunCleanup(c)
    \/ CancelJob

InitRun ==
    /\ InitDecision
    /\ cap = CapInit(NoBytes)
    /\ sm = SMInit(TRUE)
    /\ run = RunInit
    /\ cse = CaseIdle
    /\ saved = NoFiles

SpecRun == InitRun /\ [][NextRun]_vars

-----------------------------------------------------------------------------
(* Properties of the decision channel, checked under Spec *)

\* The jobs suspended in wait_for_user_response for client c with an unresolved
\* future.
Outstanding(c) ==
    {j \in Jobs : job[j].client = c /\ pc[j] \in Awaiting /\ fut[j].state = "pending"}

\* C1: for any session at most one decision request is outstanding at a time (a
\* second wait_for_user_response for the session fails fast, so two jobs are never
\* both suspended on handles of one client_id).
C1_AtMostOneOutstanding ==
    \A c \in Clients : Cardinality(Outstanding(c)) <= 1

\* C2: exactly one resolution per handle.  Handling a user_response never raises
\* (no websocket handler ends in its exception path).  A future changes only in
\* three ways: it is the unresolved handle registered for its session and a
\* response resolves it; it is unresolved and its wait times out; or its own
\* waiter registers or returns.  So a response for a resolved, expired or absent
\* handle changes nothing, and the waiter goes on with the response that
\* resolved the handle first.
C2_ExactlyOneResolution ==
    [][ /\ \A s \in Sockets : sockets'[s].status # "failed"
        /\ \A j \in Jobs :
              fut'[j] # fut[j] =>
                 \/ /\ fut[j].state = "pending" /\ fut'[j].state = "done"
                    /\ pending_responses[job[j].client] = j
                    /\ pc' = pc
                 \/ fut[j].state = "pending" /\ fut'[j].state = "cancelled" /\ pc' = pc
                 \/ pc'[j] # pc[j]
        /\ \A j \in Jobs :
              (fut[j].state = "done" /\ pc[j] = "await_court" /\ pc'[j] # pc[j]) =>
                 job'[j].selected_court = SelectedCourt(fut[j].result, job[j].all_options)
      ]_vars

\* C2 witness: a handle was resolved by one response while another response of
\* the session was discarded.
C2_Witness ==
    /\ discarded
    /\ \E j \in Jobs : fut[j].state = "done" /\ pending_responses[job[j].client] = j

\* C3: a court answer {action: "select_court", selected_court: C} delivered as
\* the data of a user_response to the court request it answers makes
\* _handle_court_selection return C.
C3_OperatorCourtUsed ==
    [][ \A j \in Jobs :
          ( /\ pc[j] = "await_court" /\ pc'[j] = "processing"
            /\ fut[j].state = "done"
            /\ fut[j].result.shape = "flat"
            /\ fut[j].result.action = "select_court"
            /\ fut[j].result.re = Req(j, "court") )
          => job'[j].selected_court = fut[j].result.selected_court
      ]_vars

\* C4: a response resolves only the request it answers: a job's wait is never
\* resolved by the answer to another (earlier) request of that job.
C4_NoStaleAnswer ==
    \A j \in Jobs :
        (pc[j] \in Awaiting /\ fut[j].state = "done" /\ fut[j].result.re.job = j)
        => fut[j].result.re.kind = KindOf(pc[j])

\* C5: when the session's connection drops while a wait is outstanding, the wait
\* is resolved in that very step.
C5_DisconnectResolvesWait ==
    [][ \A j \in Jobs :
          ( /\ pc[j] \in Awaiting /\ fut[j].state = "pending"
            /\ active_connections[job[j].client] # None
            /\ active_connections'[job[j].client] = None )
          => fut'[j].state # "pending"
      ]_vars

\* C6: a wait that timed out resumes the job with the default: the first court
\* offered, respectively all entries offered, and the job goes on (to the
\* search, respectively to the download).
C6_TimeoutDefaults ==
    [][ \A j \in Jobs :
          (pc[j] \in Awaiting /\ fut[j].state = "cancelled" /\ pc'[j] # pc[j]) =>
             /\ pc[j] = "await_court" =>
                   /\ pc'[j] = "processing"
                   /\ job'[j].selected_court = job[j].all_options[1]
             /\ pc[j] = "await_entries" =>
                   /\ pc'[j] = "downloading"
                   /\ job'[j].to_download = AllEntries(job[j].entries)
      ]_vars

\* C6 witness: no prompt ever reached an operator, one job went on after its court
\* wait with the first court, another downloads all of its MaxEntries entries.
C6_Witness ==
    /\ prompted = {}
    /\ \E j \in Jobs :
          /\ pc[j] = "processing" /\ job[j].returned_none
          /\ job[j].selected_court = job[j].all_options[1]
    /\ \E j \in Jobs :
          /\ pc[j] = "downloading" /\ job[j].returned_none
          /\ job[j].entries = MaxEntries
          /\ job[j].to_download = AllEntries(MaxEntries)

\* C7: wait_for_user_response returns None when it timed out, and whenever it
\* returns the session has no entry in pending_responses.
C7_ReturnCleansUp ==
    [][ \A j \in Jobs :
          (pc[j] \in Awaiting /\ pc'[j] # pc[j]) =>
             /\ pending_responses'[job[j].client] = None
             /\ fut[j].state = "cancelled" => job'[j].returned_none
      ]_vars

\* C7 witness: a wait returned by a response (the job goes on with the court the
\* operator chose) and the session's entry is gone.
C7_Witness ==
    \E j \in Jobs :
        /\ pc[j] = "processing" /\ ~job[j].returned_none
        /\ job[j].selected_court = "courtB"
        /\ pending_responses[job[j].client] = None

\* C27: jobs share no decision state.  A wait is only ever resolved by a
\* response to a request of its own job, and while a job stays suspended on its
\* registered handle no step (another job's wait starting or finishing) removes
\* or replaces that handle.
C27_JobsIndependent ==
    [][ \A j \in Jobs :
          /\ (pc'[j] \in Awaiting /\ fut'[j].state = "done") =>
                fut'[j].result.re.job = j
          /\ ( /\ pc[j] \in Awaiting /\ pc'[j] = pc[j]
               /\ pending_responses[job[j].client] = j ) =>
                pending_responses'[job[j].client] = j ]_vars

\* C28: every job suspended in wait_for_user_response eventually leaves it.
C28_WaitIsBounded ==
    \A j \in Jobs : (pc[j] \in Awaiting) ~> (pc[j] \notin Awaiting)

\* C28 witness: a wait's timeout elapsed while its session had no connection.
C28_Witness ==
    \E j \in Jobs :
        /\ pc[j] \in Awaiting /\ fut[j].state = "cancelled"
        /\ active_connections[job[j].client] = None

\* C34: the entries downloaded after an entry-selection decision are those the
\* operator's response selects.  For a response {action, selected_indices}
\* delivered by the endpoint to the entries request it answers: "skip" downloads
\* nothing and does not enter DOWNLOADING; "download_all" or no selected indices
\* downloads all entries; otherwise the entries at the selected in-range indices.
C34_SelectionHonoured ==
    [][ \A j \in Jobs :
          ( /\ pc[j] = "await_entries" /\ pc'[j] # pc[j]
            /\ fut[j].state = "done"
            /\ fut[j].result.shape = "flat"
            /\ fut[j].result.re = Req(j, "entries") ) =>
              LET r == fut[j].result
                  n == job[j].entries
                  InRange(i) == i < n
              IN  IF r.action = "skip"
                  THEN pc'[j] = "returning" /\ job'[j].to_download = <<>>
                  ELSE /\ pc'[j] = "downloading"
                       /\ job'[j].to_download =
                             IF r.action = "download_all" \/ r.selected_indices = <<>>
                             THEN AllEntries(n)
                             ELSE SelectSeq(r.selected_indices, InRange) ]_vars

\* C36: no answer to a published prompt is lost: whenever a prompt of a job has
\* reached an operator and the job has not yet resumed from that decision, the
\* job's handle is the one registered for its session, so that a user_response
\* arriving at that moment resolves the decision.
C36_HandleRegisteredWithPrompt ==
    \A j \in Jobs :
        ( /\ pc[j] \in {"court_prompted", "entries_prompted"}
          /\ Req(j, KindOf(pc[j])) \in prompted ) =>
            /\ pending_responses[job[j].client] = j
            /\ fut[j].state \in {"pending", "done"}

-----------------------------------------------------------------------------
(* Properties of the websocket endpoint, checked under SpecEndpoint *)

\* C39: a session's connection stays registered while its current websocket is
\* open: as long as a client has an open websocket, active_connections holds an
\* open websocket for the client (after a reconnect under the same client_id,
\* the older socket going away does not unregister the newer one).
C39_ReconnectKeepsConnection ==
    \A c \in Clients :
        (\E s \in Sockets : sockets[s].status = "open" /\ sockets[s].client = c) =>
            /\ active_connections[c] # None
            /\ sockets[active_connections[c]].status = "open"
            /\ sockets[active_connections[c]].client = c

\* C32: a message of an unrecognized type is ignored: the step that handles it
\* resolves no future, leaves pending_responses and active_connections as they
\* were, and the endpoint is still open for the next message.
C32_UnknownIgnored ==
    [][ \A s \in Sockets :
          sockets'[s].ignored > sockets[s].ignored =>
             /\ fut' = fut /\ pending_responses' = pending_responses
             /\ active_connections' = active_connections
             /\ sockets'[s].status = "open"
             /\ sockets'[s].client = sockets[s].client ]_vars

\* C32 witness: an endpoint that ignored MaxUnknown messages is open and
\* registered for its session while the session's job waits on its registered,
\* unresolved handle.
C32_Witness ==
    \E s \in Sockets :
        /\ sockets[s].status = "open" /\ sockets[s].ignored = MaxUnknown
        /\ active_connections["c1"] = s
        /\ pc["j1"] \in Awaiting /\ fut["j1"].state = "pending"
        /\ pending_responses["c1"] = "j1"

-----------------------------------------------------------------------------
(* Properties of the CM/ECF document capture, checked under SpecCapture *)

\* C8: every write to the document's file, by whichever capture strategy, is of
\* bytes that pass the validity check (%PDF magic and at least MinPdfSize bytes).
C8_OnlyValidWritten ==
    \A i \in 1..Len(cap.written) : IsValidPdf(cap.written[i])

\* C9: when one strategy produced invalid bytes and another strategy afterwards
\* produced valid ones, download_document ends in SUCCESS with the file holding
\* those valid bytes.
C9_LaterValidWins ==
    ( /\ cap.pc = "done"
      /\ cap.first_valid # NoBytes
      /\ \E a \in cap.invalid_from : a # Strategy(cap.first_valid) )
    => (cap.status = "SUCCESS" /\ cap.file = cap.first_valid)

\* C10: when no strategy produced valid bytes, download_document ends in FAILED
\* and the document's file was never written.
C10_AllFailNoFile ==
    (cap.pc = "done" /\ cap.first_valid = NoBytes)
    => (cap.status = "FAILED" /\ cap.written = <<>>)

\* C11: during one download_document call the document's file is written at
\* most once.
C11_AtMostOneWrite ==
    Len(cap.written) <= 1

\* C12: first successful observer wins: once intercept_pdf_response has captured
\* valid bytes, no later observation replaces the captured content.
C12_FirstCaptureKept ==
    [][ IsValidPdf(cap.captured_pdf_content)
          => cap'.captured_pdf_content = cap.captured_pdf_content ]_vars

\* C13: the View Document button is clicked only with the new-page listener and
\* the PDF route interceptor both installed.
C13_ArmedBeforeClick ==
    [][ (~cap.clicked /\ cap'.clicked) => (cap.listener /\ cap.ctx_route) ]_vars

\* C13 witness: the button was clicked and both observers are still installed.
C13_Witness ==
    cap.clicked /\ cap.pc = "waiting" /\ cap.listener /\ cap.ctx_route

\* C14: when the interceptor signalled bytes with the document signature and no
\* popup ever signalled, the wait ended without running into its timeout, the
\* new-page waiting task was cancelled, and the step after the wait ends the
\* call in SUCCESS with the file holding the interceptor's bytes.
C14_FirstSignalWins ==
    [][ ( /\ cap.pc = "cleanup" /\ cap'.pc # "cleanup"
          /\ cap.wait_tasks.pdf = "done"
          /\ ~cap.new_page_event )
        => /\ ~cap.timed_out
           /\ cap.wait_tasks.new_page = "cancelled"
           /\ cap'.pc = "done" /\ cap'.status = "SUCCESS"
           /\ cap'.file = cap.captured_pdf_content
           /\ cap'.file.magic = "%PDF" /\ Strategy(cap'.file) = "interception"
      ]_vars

\* C14 witness: a capture that succeeded with the interceptor's bytes while the
\* new-page task was cancelled and no popup was ever seen.
C14_Witness ==
    /\ cap.pc = "done" /\ cap.status = "SUCCESS"
    /\ cap.wait_tasks = [new_page |-> "cancelled", pdf |-> "done"]
    /\ ~cap.new_page_event /\ ~cap.timed_out
    /\ Len(cap.written) = 1 /\ Strategy(cap.file) = "interception"

\* C24: when download_document reports FAILED after entering its first strategy,
\* every strategy (interception and popup capture, PDF-viewer download, form
\* submission) has been attempted.
C24_FailedOnlyAfterAllStrategies ==
    (cap.pc = "done" /\ cap.status = "FAILED" /\ cap.attempted # {}) =>
        cap.attempted = Strategies

\* C35: from the click on View Document until the capture is resolved, every
\* request for the document, from the original page or from a popup, passes
\* through intercept_pdf_response: none is rendered without interception.
C35_InterceptorContinuous ==
    cap.pc # "idle" => ~cap.shown

-----------------------------------------------------------------------------
(* Properties of the state machine, checked under SpecSM *)

\* C15: the transition log is a chain: each record's previous_state is the state
\* of the record before it, and the first record's previous_state is IDLE,
\* also when calls overlap while a callback is awaited.
C15_HistoryIsChain ==
    LET h == sm.state_history
    IN  /\ h # <<>> => h[1].previous_state = "idle"
        /\ \A i \in 1..(Len(h) - 1) : h[i].state = h[i + 1].previous_state

\* C15 witness: two records or more, made by calls that overlap: both callers
\* are inside their callbacks.
C15_Witness ==
    /\ Len(sm.state_history) >= 2
    /\ \A t \in Callers : sm.calls[t].pc = "observer"

\* C16: a transition_to call whose callback was awaited always returns normally:
\* an exception of the callback does not leave transition_to.
C16_ObserverErrorSwallowed ==
    [][ \A t \in Callers :
          (sm.calls[t].pc = "observer" /\ sm'.calls[t].pc = "idle")
          => sm'.calls[t].result = "returned" ]_vars

\* C17: transitions are serialized: at no time are two transition_to calls inside
\* their callbacks.
C17_SingleInFlight ==
    Cardinality({t \in Callers : sm.calls[t].pc = "observer"}) <= 1

\* C30: with the callback registered, every transition recorded has sent exactly
\* one state-change event to the session, the events are in the order of the
\* log and carry the record's state and previous state, and a call returns only
\* when its callback is over.
C30_OneEventPerTransition ==
    sm.on_state_change =>
        /\ Len(sm.events) = sm.ncalls
        /\ sm.state_history # <<>> =>
              sm.events[Len(sm.events)] = sm.state_history[Len(sm.state_history)]

\* C31: reset returns the machine to its initial condition from any state:
\* current state IDLE, no previous state, empty transition log, empty context;
\* the registered callback (and everything else) is left as it was.
C31_ResetRestoresInitial ==
    [][ Reset =>
          /\ sm'.current_state = "idle" /\ sm'.previous_state = None
          /\ sm'.state_history = <<>> /\ sm'.context = {}
          /\ sm'.on_state_change = sm.on_state_change
          /\ sm'.calls = sm.calls /\ sm'.events = sm.events
          /\ sm'.connected = sm.connected ]_vars

\* C31 witness: after transitions were made the machine is in its initial
\* condition again, with the callback registered and a transition_to call still
\* suspended in it.
C31_Witness ==
    /\ sm.ncalls > 0 /\ sm.current_state = "idle" /\ sm.previous_state = None
    /\ sm.state_history = <<>> /\ sm.context = {}
    /\ sm.on_state_change
    /\ \E t \in Callers : sm.calls[t].pc = "observer"

-----------------------------------------------------------------------------
(* Properties of run_scraping_job, checked under SpecRun *)

\* C18: once a cancel request was made for the running job, no further item is
\* started and the job is not marked COMPLETED.
C18_CancelStopsJob ==
    [][ run.cancel_requested =>
          /\ run'.items_started = run.items_started
          /\ run'.status = "COMPLETED" => run.status = "COMPLETED" ]_vars

\* C19: when run_scraping_job has returned, cleanup has run, no exception left
\* it, and the browser manager is uninitialized with page, context, browser and
\* playwright released.
C19_CleanupOnEveryPath ==
    run.pc = "returned" =>
        /\ run.cleanup_ran /\ ~run.raised
        /\ run.browser = NoBrowser

\* C19 witness: a job that failed after starting an item has returned, and the
\* closes of page, context and browser all raised during its cleanup.
C19_Witness ==
    /\ run.pc = "returned" /\ run.cleanup_ran /\ run.browser = NoBrowser
    /\ run.status = "FAILED" /\ run.items_started > 0
    /\ run.close_errors = {"page", "context", "browser"}

\* C20: a navigation error raised while handling an item never makes the job
\* FAILED.
C20_NavigationErrorNotFatal ==
    run.status = "FAILED" => run.failed_by # "navigation"

-----------------------------------------------------------------------------
(* Properties of process_case within a CM/ECF job, checked under SpecRun *)

RecoveryErrors ==
    {"Recovery failed: could not re-submit case number",
     "Recovery failed: results page did not load"}

\* C21: in the step that ends a recovery, the case number submitted is the one
\* the case is being processed for; and when the results page verified, the entry
\* loop goes on with the next entry, the case is not failed, nothing is added to
\* its errors and the job stays RUNNING.
C21_RecoveryResumes ==
    [][ cse.pc = "recovering" /\ cse'.pc # "recovering" =>
          /\ Len(cse'.submissions) > Len(cse.submissions) =>
                cse'.submissions[Len(cse'.submissions)] = cse.case_number
          /\ cse'.recovered > cse.recovered =>
                /\ cse'.pc = "entry" /\ cse'.idx = cse.idx + 1
                /\ cse'.status = "pending" /\ cse'.errors = cse.errors
                /\ run'.status = "RUNNING" /\ run'.errors = run.errors ]_vars

\* C21 witness: a case was completed after a recovery, and the job COMPLETED.
C21_Witness ==
    /\ cse.recovered > 0 /\ cse.status = "completed"
    /\ run.status = "COMPLETED"

\* C22: when recovery re-submitted the case number and did not reach the results
\* page, the case returns failed with the recovery error as its last error while
\* entries remain, the job stays RUNNING, and when the failed case is returned to
\* the case loop the job is at the loop header, still RUNNING.
C22_RecoveryFailureIsPerCase ==
    [][ /\ ( /\ cse.pc = "recovering" /\ cse'.pc # "entry"
             /\ Len(cse'.submissions) > Len(cse.submissions) ) =>
               /\ cse'.pc = "returned" /\ cse'.status = "failed"
               /\ Len(cse'.errors) = Len(cse.errors) + 1
               /\ cse'.errors[Len(cse'.errors)] \in RecoveryErrors
               /\ cse.idx < cse.transcripts_found - 1
               /\ run'.status = "RUNNING"
        /\ ( /\ cse.pc = "returned" /\ cse'.pc = "idle"
             /\ cse.status = "failed" ) =>
               /\ run'.status = "RUNNING" /\ run'.pc = "between"
               /\ run'.case_results = Append(run.case_results, "failed")
               /\ run'.errors = run.errors \o cse.errors ]_vars

\* C22 witness: the first case failed in recovery, a second case was handled and
\* the job COMPLETED.
C22_Witness ==
    /\ run.status = "COMPLETED"
    /\ Len(run.case_results) = 2 /\ run.case_results[1] = "failed"
    /\ run.errors # <<>> /\ run.errors[Len(run.errors)] \in RecoveryErrors

\* C23: in the step that records a FAILED download result, the result is
\* appended to the job's downloads and one error to the case's errors, the case
\* is not failed, the job stays RUNNING, and the loop goes back for the next
\* entry, or completes the case when the entry was the last.
C23_CaptureFailureIsPerDocument ==
    [][ ( /\ cse.pc = "entry"
          /\ Len(run'.downloads) > Len(run.downloads)
          /\ run'.downloads[Len(run'.downloads)] = "FAILED" ) =>
            /\ cse'.errors = Append(cse.errors, "doc_FAILED")
            /\ cse'.status # "failed"
            /\ run'.status = "RUNNING" /\ run'.pc = "in_case"
            /\ IF cse.idx < cse.transcripts_found - 1
               THEN cse'.pc = "back"
               ELSE cse'.pc = "returned" /\ cse'.status = "completed" ]_vars

\* C23 witness: a case whose first download FAILED and whose second succeeded
\* was completed.
C23_Witness ==
    /\ run.downloads = <<"FAILED", "SUCCESS">>
    /\ cse.status = "completed" /\ cse.transcripts_downloaded = 1
    /\ Len(cse.errors) = 1

\* C29: every step in which an item or a document fails both records the
\* failure in the job's result (its downloads, its errors or the errors of the
\* case, which are added to the job's) and sends an error event to the session.
C29_FailureRecordedAndNotified ==
    [][ run'.item_failures > run.item_failures =>
          /\ \/ Len(run'.downloads) > Len(run.downloads)
             \/ Len(run'.errors) > Len(run.errors)
             \/ Len(cse'.errors) > Len(cse.errors)
          /\ run'.error_events > run.error_events ]_vars

-----------------------------------------------------------------------------
(* Properties of run_scraping_job's failure handling, checked under SpecRun *)

\* What raises into run_scraping_job's except handler.
RaisedCauses == {"initialize", "navigation"}

FatalCauses == {"initialize", "login"}

\* C26: once browser initialization raised or login reported failure, the call
\* only goes through its except handler and cleanup: no search, no item is ever
\* started, the job is never COMPLETED, and it returns FAILED with the reason as
\* its only error.
C26_FatalFailureAborts ==
    [][ run.failed_by \in FatalCauses =>
          /\ run'.pc \in {"except", "cleanup", "returned"}
          /\ run'.items_started = 0
          /\ run'.status \in {"RUNNING", "FAILED"}
          /\ run'.pc = "returned" =>
                run'.status = "FAILED" /\ run'.errors = <<run.failed_by>> ]_vars

\* C26 witness: a job returned FAILED after a failed login, and none of its items
\* was started.
C26_Witness ==
    /\ run.pc = "returned" /\ run.failed_by = "login"
    /\ run.status = "FAILED" /\ run.items_started = 0 /\ run.n > 0

-----------------------------------------------------------------------------
(* Properties of the workflow's transitions and summary, checked under SpecRun *)

\* The states of work on a document, an entry or a download.
DocumentStates ==
    {"processing_results", "navigating_to_document", "extracting_entries",
     "awaiting_transcript_selection", "downloading", "returning_to_results"}

\* The index of the first record of state st in the log h, 0 when there is none.
FirstRecord(h, st) ==
    IF \E i \in 1..Len(h) : h[i].state = st
    THEN CHOOSE i \in 1..Len(h) :
            h[i].state = st /\ \A k \in 1..(i - 1) : h[k].state # st
    ELSE 0

\* C33: the transitions recorded during a job run follow the phase order: the
\* first is to INITIALIZING; LOGGING_IN comes only after INITIALIZING; SEARCHING
\* only after LOGGING_IN and a login that succeeded; the document, entry and
\* download states only after SEARCHING; and a record of COMPLETED or ERROR is
\* the last of the log until the machine is reset.
C33_LegalPhaseOrder ==
    LET h == sm.state_history
        After(i, st) == FirstRecord(h, st) > 0 /\ FirstRecord(h, st) < i
    IN  /\ h # <<>> => h[1].state = "initializing"
        /\ \A i \in 1..Len(h) :
              /\ h[i].state = "logging_in" => After(i, "initializing")
              /\ h[i].state = "searching" => After(i, "logging_in") /\ run.logged_in
              /\ h[i].state \in DocumentStates => After(i, "searching")
              /\ h[i].state \in {"completed", "error"} => i = Len(h)

\* C33 witness: a CM/ECF job is about to return COMPLETED with every phase in
\* its log: a download after a return to the results page, then COMPLETED.
C33_Witness ==
    LET h == sm.state_history
    IN  /\ run.pc = "cleanup" /\ run.kind = "cmecf" /\ run.status = "COMPLETED"
        /\ sm.current_state = "completed"
        /\ FirstRecord(h, "returning_to_results") > 0
        /\ \E i \in 1..Len(h) :
              h[i].state = "downloading" /\ i > FirstRecord(h, "returning_to_results")

\* C37: when a job has completed, the downloaded count of its summary
\* (total_transcripts_downloaded, transcripts_downloaded) is the number of
\* download results with status SUCCESS produced during the job.
C37_SummaryCountsSuccesses ==
    run.status = "COMPLETED" => run.transcripts_downloaded = run.successes

\* C38: the job's final status and the workflow state agree.  In the step in
\* which cleanup resets the machine, a job that ends FAILED has a record of ERROR
\* in the log, and a job that ends COMPLETED has COMPLETED as its last record.
C38_StatusAgreesWithState ==
    [][ (run.pc = "cleanup" /\ run'.pc = "returned") =>
          LET h == sm.state_history
          IN  /\ run'.status = "FAILED" => FirstRecord(h, "error") > 0
              /\ run'.status = "COMPLETED" =>
                    h # <<>> /\ h[Len(h)].state = "completed" ]_vars

-----------------------------------------------------------------------------
(* File names of the downloads (utils/helpers.py, scraper/page_handlers/      *)
(* page3_docket.py, scraper/cmecf_page_handlers/document_detail_handler.py). *)
(* A string is the sequence of its characters.                                *)

\* sanitize_filename's max_length default.
MaxLength == 200

\* invalid_chars = r'[<>:"/\\|?*]'
InvalidChars == {"<", ">", ":", "\"", "/", "\\", "|", "?", "*"}

Digits == {"0", "1", "2", "3", "4", "5", "6", "7", "8", "9"}

\* [a-z] under re.IGNORECASE, over the letters the model's numbers use.
Letters == {"b", "k", "B", "K"}

\* re.sub(invalid_chars, '', filename)
RemoveInvalid(filename) == SelectSeq(filename, LAMBDA ch : ch \notin InvalidChars)

\* filename.replace(' ', '_')
ReplaceSpaces(filename) ==
    [i \in 1..Len(filename) |-> IF filename[i] = " " THEN "_" ELSE filename[i]]

\* re.sub(r'_+', '_', filename)
RECURSIVE CollapseUnderscores(_)
CollapseUnderscores(filename) ==
    IF Len(filename) <= 1 THEN filename
    ELSE IF filename[1] = "_" /\ filename[2] = "_"
         THEN CollapseUnderscores(Tail(filename))
         ELSE <<filename[1]>> \o CollapseUnderscores(Tail(filename))

\* filename[:max_length]
Truncate(filename) ==
    IF Len(filename) > MaxLength THEN SubSeq(filename, 1, MaxLength) ELSE filename

\* filename.strip('_')
RECURSIVE Strip(_)
Strip(filename) ==
    IF filename = <<>> THEN filename
    ELSE IF filename[1] = "_" THEN Strip(Tail(filename))
    ELSE IF filename[Len(filename)] = "_"
         THEN Strip(SubSeq(filename, 1, Len(filename) - 1))
         ELSE filename

SanitizeFilename(filename) ==
    Strip(Truncate(CollapseUnderscores(ReplaceSpaces(RemoveInvalid(filename)))))

\* The character classes of a token, a run of digits or of letters counted once.
RECURSIVE Classes(_)
Classes(token) ==
    IF token = <<>> THEN <<>>
    ELSE LET cl == IF token[1] \in Digits THEN "d"
                   ELSE IF token[1] \in Letters THEN "a" ELSE token[1]
             rest == Classes(Tail(token))
         IN  IF cl \in {"d", "a"} /\ rest # <<>> /\ rest[1] = cl
             THEN rest ELSE <<cl>> \o rest

\* (\d+:\d+-[a-z]+-\d+) matching the whole token.
DocketShaped(token) == Classes(token) = <<"d", ":", "d", "-", "a", "-", "d">>

\* The numbers a title or a case may carry: up to MaxChars characters, or a
\* docket number of the usual shape.  No token shorter than seven characters
\* holds a match of (\d+:\d+-[a-z]+-\d+), so within these the pattern matches
\* the whole token or nothing.
TokenChars == {"1", ":", "_"}

ShortTokens == UNION { [1..n -> TokenChars] : n \in 1..MaxChars }

Tokens == ShortTokens \cup { <<"1", ":", "2", "-", "b", "k", "-", "1">>,
                             <<"1", "2", "-", "b", "k", "-", "1">> }

\* What precedes the number in a document title.
Labels == {"Docket No.", "Case No.", "No.", None}

\* A document title: a label and the token after it (text without a label when
\* the label is None).
Titles == [label : Labels, token : Tokens]

\* entry.entry_num, entry.doc_number: the text of the number cell.
EntryNums == { <<"1">>, <<"2">>, <<"1", "2">> }

\* extract_docket_number's None: to the caller's `or` the same as the empty
\* string.
NoDocket == <<>>

\* extract_docket_number: the four patterns in their order; None when none
\* matches.
ExtractDocketNumber(title) ==
    IF title.label \in {"Docket No.", "Case No."} THEN title.token
    ELSE IF DocketShaped(title.token) THEN title.token
    ELSE NoDocket

Unknown == <<"u", "n", "k", "n", "o", "w", "n">>

\* download_transcript's file name.
TranscriptFileName(title, entry_num) ==
    LET found      == ExtractDocketNumber(title)
        docket_num == IF found = NoDocket THEN Unknown ELSE found
        safe_docket == SanitizeFilename(docket_num)
    IN  safe_docket \o <<"_", "e", "n", "t", "r", "y", "_">> \o entry_num
            \o <<".", "p", "d", "f">>

\* download_document's file name.
DocumentFileName(case_number, doc_number) ==
    case_number \o <<"_">> \o doc_number \o <<".", "p", "d", "f">>

\* A download: the document (title or case) and the entry it was made for.  A
\* job saves into the directory of its own scraper only.
Target(doc, entry) == [doc |-> doc, entry |-> entry]

\* Writing a file: whatever the directory held under that name is replaced.
SaveAs(s, dir, name, target) ==
    [files   |-> { f \in s.files : ~(f.dir = dir /\ f.name = name) }
                    \cup { [dir |-> dir, name |-> name, target |-> target] },
     targets |-> s.targets \cup { target }]

\* download_transcript, the download made: the file is saved under
\* downloads_dir / filename.
DownloadTranscript(title, entry_num) ==
    /\ Cardinality(saved.targets) < MaxSaved
    /\ \A f \in saved.files : f.dir = "BLOOMBERG"
    /\ saved' = SaveAs(saved, "BLOOMBERG", TranscriptFileName(title, entry_num),
                       Target(title, entry_num))
    /\ UNCHANGED <<decisionVars, cap, sm, run, cse>>

\* download_document, the PDF captured: the bytes are written to
\* downloads_dir / filename.
DownloadDocument(case_number, doc_number) ==
    /\ Cardinality(saved.targets) < MaxSaved
    /\ \A f \in saved.files : f.dir = "PACER"
    /\ saved' = SaveAs(saved, "PACER", DocumentFileName(case_number, doc_number),
                       Target(case_number, doc_number))
    /\ UNCHANGED <<decisionVars, cap, sm, run, cse>>

NextNames ==
    \/ \E title \in Titles, entry_num \in EntryNums : DownloadTranscript(title, entry_num)
    \/ \E case_number \in Tokens, doc_number \in EntryNums :
          DownloadDocument(case_number, doc_number)

InitNames ==
    /\ InitDecision
    /\ cap = CapInit(NoBytes)
    /\ sm = SMInit(TRUE)
    /\ run = RunInit
    /\ cse = CaseIdle
    /\ saved = NoFiles

SpecNames == InitNames /\ [][NextNames]_vars

\* C40: two different docket entries (of different documents or with different
\* entry numbers) downloaded during one job are never saved under the same file
\* name: the file of every target downloaded is still there, no download of
\* another target has replaced it.
C40_DistinctNames ==
    \A t \in saved.targets : \E f \in saved.files : f.target = t

=============================================================================
